---- MODULE Spec2Model ----
(***************************************************************************)
(* Blacklight: the command-line driver (main), the RadiationIntegrator     *)
(* constructor, destructor and Integrate, and the formula-coefficient      *)
(* pixel loop, modelled as state machines.                                 *)
(***************************************************************************)
EXTENDS Integers, Sequences, FiniteSets, TLC

VARIABLES drv, inp, geo, ri, run, tm, coef, par, zt

vars == <<drv, inp, geo, ri, run, tm, coef, par, zt>>

(***************************************************************************)
(* Bounds                                                                  *)
(***************************************************************************)
\* largest argc the driver is started with
MaxArgc == 3
\* largest adaptive_max_level, adaptive_block_size, camera_resolution and num_threads
MaxLevel == 2
MaxBlock == 3
MaxRes == 4
MaxThreads == 2
\* largest render_num_images and render_num_features
MaxImages == 2
MaxFeatures == 2
\* largest number of Integrate calls on one object, and largest step of the clock between
\* two readings
MaxCalls == 3
MaxTick == 1
\* camera_num_pix and geodesic_num_steps of the runs of the pixel loop
NumPix == 3
MaxSteps == 2
\* samples of the rays given to FindZTurnings
MaxZSteps == 33

(***************************************************************************)
(* Driver: main(argc, argv)                                                *)
(***************************************************************************)
\* the input files argv[1] can name
InputFiles == {"a.inp", "b.inp"}

\* what() texts a ray_trace_exception can carry
WhatTexts == {"Error: bad input.\n", "Error: missing value.\n"}

\* the outcomes of constructing input_reader inputs(input_file)
ReaderOutcomes ==
  {[kind |-> "ok", what |-> ""]}
    \cup {[kind |-> "ray_trace_exception", what |-> w] : w \in WhatTexts}
    \cup {[kind |-> k, what |-> ""] : k \in {"bad_alloc", "runtime_error"}}

MsgSingleFile == "Error: Must give a single input file.\n"
MsgCouldNotRead == "Error: Could not read input file.\n"

\* the argument vectors of length argc (argv[0] is the program name)
ArgVectors(n) == IF n = 0 THEN {<<>>} ELSE {<<"blacklight">> \o t : t \in [1..(n - 1) -> InputFiles]}

\* state of the process before main runs; fs is what constructing the reader on each file does
DrvInit ==
  /\ inp = <<>> /\ geo = <<>> /\ ri = <<>> /\ run = <<>> /\ tm = <<>> /\ coef = <<>>
  /\ par = <<>> /\ zt = <<>>
  /\ \E n \in 0..MaxArgc :
      drv \in [pc : {"start"}, argc : {n}, argv : ArgVectors(n),
               fs : [InputFiles -> ReaderOutcomes],
               input_file : {""}, outcome : {"none"}, out : {<<>>}, exit : {-1}]

\* if (argc != 2) { cout << ...; return 1; }  const std::string input_file(argv[1]);
MainParseArgs ==
  /\ drv.pc = "start"
  /\ IF drv.argc # 2
       THEN drv' = [drv EXCEPT !.pc = "exited", !.out = Append(@, MsgSingleFile),
                               !.exit = 1]
       ELSE drv' = [drv EXCEPT !.pc = "read", !.input_file = drv.argv[2]]

\* the handler of catch (...): prints, and control leaves the try statement
CatchAll(d) == [d EXCEPT !.pc = "end", !.out = Append(@, MsgCouldNotRead)]

\* try { input_reader inputs(input_file); } catch (ray_trace_exception) {...} catch (...) {...}
MainReadInput ==
  /\ drv.pc = "read"
  /\ LET o == drv.fs[drv.input_file]
         d == [drv EXCEPT !.outcome = o.kind] IN
       CASE o.kind = "ok" -> drv' = [d EXCEPT !.pc = "end"]
         [] o.kind = "ray_trace_exception" ->
              drv' = [d EXCEPT !.pc = "exited", !.out = Append(@, o.what), !.exit = 1]
         [] OTHER -> drv' = CatchAll(d)

\* return 0;
MainEnd ==
  /\ drv.pc = "end"
  /\ drv' = [drv EXCEPT !.pc = "exited", !.exit = 0]

NextMain == (MainParseArgs \/ MainReadInput \/ MainEnd) /\ UNCHANGED <<inp, geo, ri, run, tm, coef, par, zt>>

SpecMain == DrvInit /\ [][NextMain]_vars

\* C1: main exits 0 only when argc = 2 and the reader was constructed; when argc # 2 or
\* construction throws anything, it has printed exactly one line and exits 1
C1_ExitStatus ==
  drv.pc = "exited" =>
    /\ drv.exit = 0 => (drv.argc = 2 /\ drv.outcome = "ok")
    /\ (drv.argc # 2 \/ drv.outcome \notin {"ok", "none"}) =>
         (drv.exit = 1 /\ Len(drv.out) = 1)

(***************************************************************************)
(* RadiationIntegrator: constructor                                        *)
(* in is the InputReader: a record of option values plus in.absent, the    *)
(* set of keys whose std::optional holds no value.  s is the object under  *)
(* construction; s.err names the exception that ended construction.        *)
(***************************************************************************)
K(name) == <<name>>
K1(name, i) == <<name, i>>
K2(name, i, j) == <<name, i, j>>

ErrOptional == "bad_optional_access"
ErrSaveLoad == "Cannot both save and load a sample checkpoint."
ErrSlowCheckpoint == "Cannot use sample checkpoints with slow light."
ErrKappa == "Polarized transport only supports kappa in [3.5, 5]."
ErrFeatures == "Must have positive number of features for each rendered image."
ErrNoImage == "No image or rendering selected."
ErrAdaptiveLight == "Adaptive ray tracing requires image_light."
ErrBlockPositive == "Must have positive adaptive_block_size."
ErrBlockDivide == "Must have adaptive_block_size divide camera_resolution."

\* the messages of BlacklightException thrown by the constructor
BlacklightErrors ==
  {ErrSaveLoad, ErrSlowCheckpoint, ErrKappa, ErrFeatures, ErrNoImage, ErrAdaptiveLight,
   ErrBlockPositive, ErrBlockDivide}

Failed(s) == s.err # "none"
Throw(s, e) == [s EXCEPT !.err = e]
Warn(s, w) == [s EXCEPT !.warnings = Append(@, w)]
\* true value of an optional<bool>: has_value() and value()
SetTrue(in, name) == K(name) \notin in.absent /\ in[name]
\* .value() of each key, then s2: std::bad_optional_access when one is absent
Read(in, s, keys, s2) == IF keys \cap in.absent # {} THEN Throw(s, ErrOptional) ELSE s2
\* new T[n]: one more live array
Block(grp, arr, idx, part) == [grp |-> grp, arr |-> arr, idx |-> idx, part |-> part]
New(s, grp, arr, idx) == [s EXCEPT !.allocs = Append(@, Block(grp, arr, idx, "new"))]
\* arr[idx].Allocate(...): the data of one Array
Allocate(s, grp, arr, idx) == [s EXCEPT !.allocs = Append(@, Block(grp, arr, idx, "data"))]

\* one new T[n] for each name of arrs, in order
NewAll(s, grp, arrs, idx) ==
  [s EXCEPT !.allocs = @ \o [i \in 1..Len(arrs) |-> Block(grp, arrs[i], idx, "new")]]

\* the default member initializers of the class
HeaderDefaults ==
  [first_time |-> TRUE, adaptive_level |-> 0, adaptive_num_levels |-> 0,
   image_num_quantities |-> 0]

\* the object before the constructor's body runs: the defaults, and the bytes (in.garbage for
\* adaptive_block_size and image_polarization) of the members the constructor assigns on some
\* paths only
NewObject(in) ==
  [phase |-> "none", err |-> "none", warnings |-> <<>>, allocs |-> <<>>, frees |-> <<>>,
   first_time |-> HeaderDefaults.first_time, adaptive_level |-> HeaderDefaults.adaptive_level,
   adaptive_num_levels |-> HeaderDefaults.adaptive_num_levels,
   model_type |-> "unset", num_threads |-> 0,
   checkpoint_sample_save |-> FALSE, checkpoint_sample_load |-> FALSE,
   checkpoint_sample_file |-> FALSE,
   plasma_model |-> "unset", plasma_kappa_frac |-> 0, plasma_kappa |-> 0,
   slow_light_on |-> FALSE, fallback_nan |-> FALSE, camera_resolution |-> 0,
   image_light |-> FALSE, image_polarization |-> in.garbage # 0, image_time |-> FALSE,
   image_length |-> FALSE, image_lambda |-> FALSE, image_emission |-> FALSE,
   image_tau |-> FALSE, image_lambda_ave |-> FALSE, image_emission_ave |-> FALSE,
   image_tau_int |-> FALSE,
   render_num_images |-> 0, render_num_features |-> <<>>,
   adaptive_max_level |-> 0, adaptive_block_size |-> in.garbage,
   camera_num_pix |-> 0, geodesic_num_steps |-> 0,
   image_num_quantities |-> HeaderDefaults.image_num_quantities, image_offset_time |-> 0, image_offset_length |-> 0,
   image_offset_lambda |-> 0, image_offset_emission |-> 0, image_offset_tau |-> 0,
   image_offset_lambda_ave |-> 0, image_offset_emission_ave |-> 0,
   image_offset_tau_int |-> 0,
   linear_root_blocks |-> 0, block_num_pix |-> 0, block_counts0 |-> 0]

\* model_type, num_threads, bh_a
CopyGeneral(in, s) ==
  Read(in, s, {K("model_type"), K("num_threads")},
    Read(in, s, {IF in.model_type = "simulation" THEN K("simulation_a") ELSE K("formula_spin")},
      [s EXCEPT !.model_type = in.model_type, !.num_threads = in.num_threads]))

\* if (checkpoint_sample_save and checkpoint_sample_load) throw ...
SaveLoadConflictMutOff(save, load) == FALSE

SaveLoadConflict(save, load) == save /\ load

CopyCheckpoint(in, s) ==
  IF Failed(s) THEN s
  ELSE IF s.model_type = "simulation"
    THEN Read(in, s, {K("checkpoint_sample_save"), K("checkpoint_sample_load")},
           LET s1 == [s EXCEPT !.checkpoint_sample_save = in.checkpoint_sample_save,
                               !.checkpoint_sample_load = in.checkpoint_sample_load]
           IN IF SaveLoadConflict(s1.checkpoint_sample_save, s1.checkpoint_sample_load)
                THEN Throw(s1, ErrSaveLoad)
                ELSE IF s1.checkpoint_sample_save \/ s1.checkpoint_sample_load
                  THEN Read(in, s1, {K("checkpoint_sample_file")},
                            [s1 EXCEPT !.checkpoint_sample_file = TRUE])
                  ELSE s1)
    ELSE LET s1 == IF SetTrue(in, "checkpoint_sample_save")
                     THEN Warn(s, "Ignoring checkpoint_sample_save selection.") ELSE s
         IN IF SetTrue(in, "checkpoint_sample_load")
              THEN Warn(s1, "Ignoring checkpoint_sample_load selection.") ELSE s1

FormulaKeys ==
  {K(n) : n \in {"formula_mass", "formula_r0", "formula_h", "formula_l0", "formula_q",
                 "formula_nup", "formula_cn0", "formula_alpha", "formula_a", "formula_beta"}}

CopyFormula(in, s) ==
  IF Failed(s) \/ s.model_type # "formula" THEN s ELSE Read(in, s, FormulaKeys, s)

CopySimulation(in, s) ==
  IF Failed(s) \/ s.model_type # "simulation" THEN s
  ELSE Read(in, s, {K("simulation_coord"), K("simulation_m_msun"), K("simulation_rho_cgs"),
                    K("simulation_interp")},
         IF in.simulation_interp THEN Read(in, s, {K("simulation_block_interp")}, s) ELSE s)

\* fractions are in tenths
CopyPlasma(in, s) ==
  IF Failed(s) \/ s.model_type # "simulation" THEN s
  ELSE Read(in, s, {K("plasma_mu"), K("plasma_ne_ni"), K("plasma_model")},
    Read(in, s, IF in.plasma_model = "ti_te_beta"
                  THEN {K("plasma_rat_low"), K("plasma_rat_high")} ELSE {},
      Read(in, s, {K("plasma_power_frac")},
        LET s1 == IF in.plasma_power_frac < 0 \/ in.plasma_power_frac > 10
                    THEN Warn(s, "Fraction of power-law electrons outside [0, 1].") ELSE s
        IN Read(in, s1, IF in.plasma_power_frac # 0
                          THEN {K("plasma_p"), K("plasma_gamma_min"), K("plasma_gamma_max")}
                          ELSE {},
             Read(in, s1, {K("plasma_kappa_frac")},
               LET s2 == IF in.plasma_kappa_frac < 0 \/ in.plasma_kappa_frac > 10
                           THEN Warn(s1, "Fraction of kappa-distribution electrons outside [0, 1].")
                           ELSE s1
               IN Read(in, s2, IF in.plasma_kappa_frac # 0
                                 THEN {K("plasma_kappa"), K("plasma_w")} ELSE {},
                    LET th == 10 - (in.plasma_power_frac + in.plasma_kappa_frac)
                        s3 == IF th < 0 \/ th > 10
                                THEN Warn(s2, "Fraction of thermal electrons outside [0, 1].")
                                ELSE s2
                    IN Read(in, s3, {K("plasma_sigma_max")},
                         [s3 EXCEPT !.plasma_model = in.plasma_model,
                                    !.plasma_kappa_frac = in.plasma_kappa_frac,
                                    !.plasma_kappa = IF in.plasma_kappa_frac # 0
                                                       THEN in.plasma_kappa ELSE @])))))))

CopySlowLightMutNoCheck(in, s) ==
  IF Failed(s) \/ s.model_type # "simulation" THEN s
  ELSE Read(in, s, {K("slow_light_on")},
         LET s1 == [s EXCEPT !.slow_light_on = in.slow_light_on] IN
         IF s1.slow_light_on
           THEN Read(in, s1, {K("slow_interp"), K("slow_chunk_size"),
                              K("slow_t_start"), K("slow_dt")}, s1)
           ELSE s1)

CopySlowLight(in, s) ==
  IF Failed(s) \/ s.model_type # "simulation" THEN s
  ELSE Read(in, s, {K("slow_light_on")},
         LET s1 == [s EXCEPT !.slow_light_on = in.slow_light_on] IN
         IF s1.slow_light_on
           THEN IF s1.checkpoint_sample_save \/ s1.checkpoint_sample_load
                  THEN Throw(s1, ErrSlowCheckpoint)
                  ELSE Read(in, s1, {K("slow_interp"), K("slow_chunk_size"),
                                     K("slow_t_start"), K("slow_dt")}, s1)
           ELSE s1)

CopyFallbackMutAnyModel(in, s) ==
  IF Failed(s) THEN s
  ELSE Read(in, s, {K("fallback_nan")},
         LET s1 == [s EXCEPT !.fallback_nan = in.fallback_nan] IN
         IF ~s1.fallback_nan
           THEN Read(in, s1, {K("fallback_rho")}
                               \cup (IF s1.plasma_model = "ti_te_beta"
                                       THEN {K("fallback_pgas")} ELSE {})
                               \cup (IF s1.plasma_model = "code_kappa"
                                       THEN {K("fallback_kappa")} ELSE {}), s1)
           ELSE s1)

CopyFallback(in, s) ==
  IF Failed(s) THEN s
  ELSE Read(in, s, {K("fallback_nan")},
         LET s1 == [s EXCEPT !.fallback_nan = in.fallback_nan] IN
         IF s1.model_type = "simulation" /\ ~s1.fallback_nan
           THEN Read(in, s1, {K("fallback_rho")}
                               \cup (IF s1.plasma_model = "ti_te_beta"
                                       THEN {K("fallback_pgas")} ELSE {})
                               \cup (IF s1.plasma_model = "code_kappa"
                                       THEN {K("fallback_kappa")} ELSE {}), s1)
           ELSE s1)

CopyCamera(in, s) ==
  IF Failed(s) THEN s
  ELSE Read(in, s, {K("camera_r"), K("camera_resolution")},
         [s EXCEPT !.camera_resolution = in.camera_resolution])

CopyImagePolarization(in, s) ==
  IF s.image_light
    THEN Read(in, s, {K("image_frequency")},
           LET s1 == IF s.model_type = "simulation"
                       THEN Read(in, s, {K("image_polarization")},
                                 [s EXCEPT !.image_polarization = in.image_polarization])
                       ELSE IF SetTrue(in, "image_polarization")
                              THEN Warn(s, "Ignoring image_polarization selection.") ELSE s
           IN IF Failed(s1) THEN s1
              ELSE IF s1.model_type = "simulation" /\ s1.image_polarization
                        /\ s1.plasma_kappa_frac # 0
                THEN IF s1.plasma_kappa < 35 \/ s1.plasma_kappa > 50
                       THEN Throw(s1, ErrKappa)
                       ELSE IF s1.plasma_kappa \notin {35, 40, 45, 50}
                         THEN Warn(s1, "Polarized transport will interpolate formulas based on kappa.")
                         ELSE s1
                ELSE s1)
    ELSE IF SetTrue(in, "image_polarization")
           THEN Warn(s, "Ignoring image_polarization selection.") ELSE s

\* image_lambda_ave, image_emission_ave, image_tau_int: copied for a simulation, else forced off
CopyImageAverages(in, s) ==
  IF s.model_type = "simulation"
    THEN Read(in, s, {K("image_lambda_ave"), K("image_emission_ave"), K("image_tau_int")},
           [s EXCEPT !.image_lambda_ave = in.image_lambda_ave,
                     !.image_emission_ave = in.image_emission_ave,
                     !.image_tau_int = in.image_tau_int])
    ELSE LET s1 == IF SetTrue(in, "image_lambda_ave")
                     THEN Warn(s, "Ignoring image_lambda_ave selection.") ELSE s
             s2 == IF SetTrue(in, "image_emission_ave")
                     THEN Warn(s1, "Ignoring image_emission_ave selection.") ELSE s1
             s3 == IF SetTrue(in, "image_tau_int")
                     THEN Warn(s2, "Ignoring image_tau_int selection.") ELSE s2
         IN [s3 EXCEPT !.image_lambda_ave = FALSE, !.image_emission_ave = FALSE,
                       !.image_tau_int = FALSE]

CopyImage(in, s) ==
  IF Failed(s) THEN s
  ELSE Read(in, s, {K("image_light")},
    LET s1 == CopyImagePolarization(in, [s EXCEPT !.image_light = in.image_light]) IN
    IF Failed(s1) THEN s1
    ELSE Read(in, s1, {K("image_time"), K("image_length"), K("image_lambda"),
                       K("image_emission"), K("image_tau")},
           CopyImageAverages(in,
             [s1 EXCEPT !.image_time = in.image_time, !.image_length = in.image_length,
                        !.image_lambda = in.image_lambda,
                        !.image_emission = in.image_emission, !.image_tau = in.image_tau])))

RenderTables ==
  <<"render_num_features", "render_quantities", "render_types", "render_thresh_vals",
    "render_min_vals", "render_max_vals", "render_opacities", "render_tau_scales",
    "render_x_vals", "render_y_vals", "render_z_vals">>

\* the keys read for feature n_f of image n_i
FeatureKeys(in, n_i, n_f) ==
  LET type == in.render_types[n_i + 1][n_f + 1] IN
  {K2("render_quantities", n_i, n_f), K2("render_types", n_i, n_f),
   K2("render_x_vals", n_i, n_f), K2("render_y_vals", n_i, n_f),
   K2("render_z_vals", n_i, n_f)}
    \cup (IF type \in {"rise", "fall"}
            THEN {K2("render_thresh_vals", n_i, n_f), K2("render_opacities", n_i, n_f)}
            ELSE {})
    \cup (IF type = "fill"
            THEN {K2("render_min_vals", n_i, n_f), K2("render_max_vals", n_i, n_f),
                  K2("render_tau_scales", n_i, n_f)}
            ELSE {})

\* the body of the loop over rendered images, from image n_i on
RECURSIVE CopyRenderImages(_, _, _)
CopyRenderImages(in, s, n_i) ==
  IF Failed(s) \/ n_i >= s.render_num_images THEN s
  ELSE Read(in, s, {K1("render_num_features", n_i)},
         LET num_features == in.render_num_features[n_i + 1] IN
         IF num_features <= 0 THEN Throw(s, ErrFeatures)
         ELSE LET s1 == NewAll([s EXCEPT !.render_num_features = Append(@, num_features)],
                               "render_input", Tail(RenderTables), n_i)
              IN CopyRenderImages(in,
                   Read(in, s1, UNION {FeatureKeys(in, n_i, n_f) : n_f \in 0..(num_features - 1)},
                        s1),
                   n_i + 1))

CopyRendering(in, s) ==
  IF Failed(s) THEN s
  ELSE LET s1 == IF s.model_type = "simulation"
                   THEN Read(in, s, {K("render_num_images")},
                             [s EXCEPT !.render_num_images = in.render_num_images])
                   ELSE [(IF K("render_num_images") \notin in.absent /\ in.render_num_images > 0
                            THEN Warn(s, "Ignoring request for rendering.") ELSE s)
                         EXCEPT !.render_num_images = 0]
       IN IF Failed(s1) \/ s1.render_num_images <= 0 THEN s1
          ELSE CopyRenderImages(in, NewAll(s1, "render_input", RenderTables, -1), 0)

\* image_light or image_time or ... or image_tau_int or render_num_images > 0
AnySelectedMutNoRender(s) ==
  \/ s.image_light \/ s.image_time \/ s.image_length \/ s.image_lambda \/ s.image_emission
  \/ s.image_tau \/ s.image_lambda_ave \/ s.image_emission_ave \/ s.image_tau_int

AnySelected(s) ==
  \/ s.image_light \/ s.image_time \/ s.image_length \/ s.image_lambda \/ s.image_emission
  \/ s.image_tau \/ s.image_lambda_ave \/ s.image_emission_ave \/ s.image_tau_int
  \/ s.render_num_images > 0

CheckSelection(in, s) ==
  IF Failed(s) THEN s
  ELSE IF ~AnySelected(s) THEN Throw(s, ErrNoImage)
  ELSE Read(in, s, {K("ray_flat")}, s)

\* camera_resolution % adaptive_block_size != 0, for adaptive_block_size > 0
NotDividesMutOff(res, block) == FALSE

NotDivides(res, block) == res % block # 0

AdaptiveCriteria ==
  {[frac |-> "adaptive_val_frac", cut |-> "adaptive_val_cut"],
   [frac |-> "adaptive_abs_grad_frac", cut |-> "adaptive_abs_grad_cut"],
   [frac |-> "adaptive_rel_grad_frac", cut |-> "adaptive_rel_grad_cut"],
   [frac |-> "adaptive_abs_lapl_frac", cut |-> "adaptive_abs_lapl_cut"],
   [frac |-> "adaptive_rel_lapl_frac", cut |-> "adaptive_rel_lapl_cut"]}

\* the *_frac keys, and the *_cut key of each criterion whose fraction is >= 0
CriterionKeys(in) ==
  UNION {{K(c.frac)} \cup (IF in[c.frac] >= 0 THEN {K(c.cut)} ELSE {}) : c \in AdaptiveCriteria}

CopyAdaptive(in, s) ==
  IF Failed(s) THEN s
  ELSE Read(in, s, {K("adaptive_max_level")},
    LET s1 == [s EXCEPT !.adaptive_max_level = in.adaptive_max_level] IN
    IF s1.adaptive_max_level <= 0 THEN s1
    ELSE IF ~s1.image_light THEN Throw(s1, ErrAdaptiveLight)
    ELSE Read(in, s1, {K("adaptive_block_size")},
      LET s2 == [s1 EXCEPT !.adaptive_block_size = in.adaptive_block_size] IN
      IF s2.adaptive_block_size <= 0 THEN Throw(s2, ErrBlockPositive)
      ELSE IF NotDivides(s2.camera_resolution, s2.adaptive_block_size)
        THEN Throw(s2, ErrBlockDivide)
      ELSE Read(in, s2, CriterionKeys(in), s2)))

\* shallow copies of the geodesic integrator's camera and sample data
CopyGeodesicData(g, s) ==
  IF Failed(s) THEN s
  ELSE [s EXCEPT !.camera_num_pix = g.camera_num_pix,
                 !.geodesic_num_steps = g.geodesic_num_steps]

SampleTables ==
  <<"sample_inds", "sample_fracs", "sample_nan", "sample_fallback", "sample_rho",
    "sample_pgas", "sample_kappa", "sample_uu1", "sample_uu2", "sample_uu3", "sample_bb1",
    "sample_bb2", "sample_bb3">>

CoefficientTables ==
  <<"j_i", "j_q", "j_v", "alpha_i", "alpha_q", "alpha_v", "rho_q", "rho_v", "cell_values">>

AllocSample(s) == IF Failed(s) THEN s ELSE NewAll(s, "sample", SampleTables, -1)

AllocCoefficient(s) == IF Failed(s) THEN s ELSE NewAll(s, "coefficient", CoefficientTables, -1)

AllocImage(s) == IF Failed(s) THEN s ELSE New(s, "image", "image", -1)

AllocRender(s) == IF Failed(s) THEN s ELSE New(s, "render", "render", -1)

\* CellValues::num_cell_values
NumCellValues == 7

\* width of the light channel
LightWidth(s) == IF s.model_type = "simulation" /\ s.image_polarization THEN 4 ELSE 1

\* one "if (image_x) { image_num_quantities += w; image_offset_... = image_num_quantities; }"
OffsetStepMutBefore(s, on, w, later) ==
  IF ~on THEN s
  ELSE LET n == s.image_num_quantities + w IN
       [f \in DOMAIN s |-> IF f = "image_num_quantities" THEN n
                           ELSE IF f \in later THEN s.image_num_quantities ELSE s[f]]

OffsetStep(s, on, w, later) ==
  IF ~on THEN s
  ELSE LET n == s.image_num_quantities + w IN
       [f \in DOMAIN s |-> IF f = "image_num_quantities" \/ f \in later THEN n ELSE s[f]]

CalcOffsets(s) ==
  IF Failed(s) THEN s
  ELSE
    LET o1 == {"image_offset_tau_int"}
        o2 == o1 \cup {"image_offset_emission_ave"}
        o3 == o2 \cup {"image_offset_lambda_ave"}
        o4 == o3 \cup {"image_offset_tau"}
        o5 == o4 \cup {"image_offset_emission"}
        o6 == o5 \cup {"image_offset_lambda"}
        o7 == o6 \cup {"image_offset_length"}
        o8 == o7 \cup {"image_offset_time"}
        s1 == OffsetStep(s, s.image_light, LightWidth(s), o8)
        s2 == OffsetStep(s1, s.image_time, 1, o7)
        s3 == OffsetStep(s2, s.image_length, 1, o6)
        s4 == OffsetStep(s3, s.image_lambda, 1, o5)
        s5 == OffsetStep(s4, s.image_emission, 1, o4)
        s6 == OffsetStep(s5, s.image_tau, 1, o3)
        s7 == OffsetStep(s6, s.image_lambda_ave, NumCellValues, o2)
        s8 == OffsetStep(s7, s.image_emission_ave, NumCellValues, o1)
    IN OffsetStep(s8, s.image_tau_int, NumCellValues, {})

\* for (thread = 0; thread < num_threads; thread++) image_blocks[thread].Allocate(...)
AllocImageBlocks(s) ==
  [s EXCEPT !.allocs = @ \o [k \in 1..s.num_threads |->
                               Block("adaptive", "image_blocks", k - 1, "data")]]

AllocAdaptive(s) ==
  IF Failed(s) \/ s.adaptive_max_level <= 0 THEN s
  ELSE LET lrb == s.camera_resolution \div s.adaptive_block_size
           s1 == [s EXCEPT !.linear_root_blocks = lrb,
                           !.block_num_pix = s.adaptive_block_size * s.adaptive_block_size,
                           !.block_counts0 = lrb * lrb]
           s2 == New(New(s1, "adaptive", "block_counts", -1), "adaptive", "refinement_flags", -1)
           s3 == New(Allocate(s2, "adaptive", "refinement_flags", 0), "adaptive", "image_blocks", -1)
       IN AllocImageBlocks(s3)

\* RadiationIntegrator::RadiationIntegrator(p_input_reader, p_geodesic_integrator, ...)
Ctor(in, g) ==
  LET s1 == CopyGeneral(in, NewObject(in))
      s2 == CopySlowLight(in, CopyPlasma(in, CopySimulation(in, CopyFormula(in,
              CopyCheckpoint(in, s1)))))
      s3 == CopyImage(in, CopyCamera(in, CopyFallback(in, s2)))
      s4 == CopyAdaptive(in, CheckSelection(in, CopyRendering(in, s3)))
      s5 == AllocCoefficient(AllocSample(CopyGeodesicData(g, s4)))
  IN AllocAdaptive(AllocRender(CalcOffsets(AllocImage(s5))))

(***************************************************************************)
(* RadiationIntegrator: destructor                                         *)
(***************************************************************************)
SeqRange(q) == {q[i] : i \in 1..Len(q)}

IsLive(s, a) ==
  Cardinality({i \in 1..Len(s.allocs) : s.allocs[i] = a})
    > Cardinality({i \in 1..Len(s.frees) : s.frees[i] = a})

\* delete[] p: releases what p points to; nothing when p is null (never allocated)
Delete(s, grp, arr, idx) ==
  LET a == Block(grp, arr, idx, "new") IN
  IF a \in SeqRange(s.allocs) THEN [s EXCEPT !.frees = Append(@, a)] ELSE s

\* Array::Deallocate(): releases the data when the array holds any
Deallocate(s, grp, arr, idx) ==
  LET a == Block(grp, arr, idx, "data") IN
  IF IsLive(s, a) THEN [s EXCEPT !.frees = Append(@, a)] ELSE s

\* delete[] of each name of arrs, in order
DeleteAll(s, grp, arrs, idx) ==
  [s EXCEPT !.frees = @ \o SelectSeq([i \in 1..Len(arrs) |-> Block(grp, arrs[i], idx, "new")],
                                     LAMBDA a : a \in SeqRange(s.allocs))]

\* for (level = 0; level <= adaptive_max_level; level++) each table[level].Deallocate()
DeallocateLevels(s, grp, arrs) ==
  LET n == Len(arrs)
      calls == [k \in 1..((s.adaptive_max_level + 1) * n) |->
                  Block(grp, arrs[((k - 1) % n) + 1], (k - 1) \div n, "data")]
  IN [s EXCEPT !.frees = @ \o SelectSeq(calls, LAMBDA a : IsLive(s, a))]

\* the per-image arrays, in the order the destructor deletes them
RenderImageFrees ==
  <<"render_quantities", "render_types", "render_thresh_vals", "render_min_vals",
    "render_max_vals", "render_x_vals", "render_y_vals", "render_z_vals", "render_opacities",
    "render_tau_scales">>

\* for (n_i = 0; n_i < render_num_images; n_i++) delete[] each per-image array
FreeRenderImages(s) ==
  LET n == Len(RenderImageFrees)
      calls == [k \in 1..(s.render_num_images * n) |->
                  Block("render_input", RenderImageFrees[((k - 1) % n) + 1], (k - 1) \div n,
                        "new")]
  IN [s EXCEPT !.frees = @ \o SelectSeq(calls, LAMBDA a : a \in SeqRange(s.allocs))]

FreeRenderInput(s) ==
  DeleteAll(FreeRenderImages(s), "render_input",
            <<"render_num_features">> \o RenderImageFrees, -1)

FreeSample(s) ==
  DeleteAll(DeallocateLevels(s, "sample", SampleTables), "sample", SampleTables, -1)

FreeCoefficient(s) ==
  DeleteAll(DeallocateLevels(s, "coefficient", CoefficientTables), "coefficient",
            CoefficientTables, -1)

FreeImage(s) == Delete(DeallocateLevels(s, "image", <<"image">>), "image", "image", -1)

FreeRender(s) == Delete(DeallocateLevels(s, "render", <<"render">>), "render", "render", -1)

\* for (thread = 0; thread < num_threads; thread++) image_blocks[thread].Deallocate()
FreeImageBlocks(s) ==
  LET calls == [k \in 1..s.num_threads |-> Block("adaptive", "image_blocks", k - 1, "data")]
  IN [s EXCEPT !.frees = @ \o SelectSeq(calls, LAMBDA a : IsLive(s, a))]

FreeAdaptive(s) ==
  IF s.adaptive_max_level <= 0 THEN s
  ELSE DeleteAll(FreeImageBlocks(DeallocateLevels(s, "adaptive", <<"refinement_flags">>)),
                 "adaptive", <<"block_counts", "refinement_flags", "image_blocks">>, -1)

\* the order of the destructor's sections
DtorMutReverse(s) ==
  FreeRenderInput(FreeSample(FreeCoefficient(FreeImage(FreeRender(FreeAdaptive(s))))))

\* RadiationIntegrator::~RadiationIntegrator()
Dtor(s) ==
  FreeAdaptive(FreeRender(FreeImage(FreeCoefficient(FreeSample(FreeRenderInput(s))))))

(***************************************************************************)
(* CalculateFormulaCoefficients                                            *)
(* A coefficient array is a sequence of rows, one per pixel; element       *)
(* (m, n) is row m + 1, column n + 1.  Values are <<kind, m, n>>.          *)
(***************************************************************************)
Uninit == <<"uninit", -1, -1>>
NaN == <<"nan", -1, -1>>
\* the emission and absorption coefficients the formulas give at sample n of ray m
FormulaJ(m, n) == <<"j", m, n>>
FormulaAlpha(m, n) == <<"alpha", m, n>>

\* Array::Allocate(n1, n2): n1 * n2 elements, none initialized
NewArray(n1, n2) == [m \in 1..n1 |-> [n \in 1..n2 |-> Uninit]]

\* the writes of the loop body for pixel m, in program order
PixelWritesMutNoNan(fallback_nan, g, m) ==
  LET num_steps == g.sample_num[m + 1] IN
  IF num_steps <= 0 THEN <<>>
  ELSE [k \in 1..(2 * num_steps) |->
          LET n == (k - 1) \div 2 IN
          IF k % 2 = 1 THEN [arr |-> "j_i", m |-> m, n |-> n, val |-> FormulaJ(m, n)]
          ELSE [arr |-> "alpha_i", m |-> m, n |-> n, val |-> FormulaAlpha(m, n)]]

PixelWritesMutRow(fallback_nan, g, m) ==
  LET num_steps == g.sample_num[m + 1] IN
  IF num_steps <= 0 THEN <<>>
  ELSE [k \in 1..(2 * num_steps) |->
          LET n == (k - 1) \div 2
              nan == fallback_nan /\ g.sample_flags[m + 1] IN
          IF k % 2 = 1
            THEN [arr |-> "j_i", m |-> 0, n |-> n,
                  val |-> IF nan THEN NaN ELSE FormulaJ(m, n)]
            ELSE [arr |-> "alpha_i", m |-> m, n |-> n,
                  val |-> IF nan THEN NaN ELSE FormulaAlpha(m, n)]]

PixelWrites(fallback_nan, g, m) ==
  LET num_steps == g.sample_num[m + 1] IN
  IF num_steps <= 0 THEN <<>>
  ELSE [k \in 1..(2 * num_steps) |->
          LET n == (k - 1) \div 2
              nan == fallback_nan /\ g.sample_flags[m + 1] IN
          IF k % 2 = 1
            THEN [arr |-> "j_i", m |-> m, n |-> n,
                  val |-> IF nan THEN NaN ELSE FormulaJ(m, n)]
            ELSE [arr |-> "alpha_i", m |-> m, n |-> n,
                  val |-> IF nan THEN NaN ELSE FormulaAlpha(m, n)]]

\* arr(m, n) = val
Store(c, w) == [c EXCEPT ![w.arr][w.m + 1][w.n + 1] = w.val]

RECURSIVE StoreAll(_, _)
StoreAll(c, ws) == IF ws = <<>> THEN c ELSE StoreAll(Store(c, Head(ws)), Tail(ws))

\* the loop over pixels m = from .. camera_num_pix - 1, run by one thread
RECURSIVE PixelLoop(_, _, _, _)
PixelLoop(c, fallback_nan, g, m) ==
  IF m >= g.camera_num_pix THEN c
  ELSE PixelLoop(StoreAll(c, PixelWrites(fallback_nan, g, m)), fallback_nan, g, m + 1)

\* if (first_time) { j_i.Allocate(...); alpha_i.Allocate(...); }
AllocateCoefficients(first_time, g, c) ==
  IF first_time
    THEN [j_i |-> NewArray(g.camera_num_pix, g.geodesic_num_steps),
          alpha_i |-> NewArray(g.camera_num_pix, g.geodesic_num_steps)]
    ELSE c

\* the arrays after CalculateFormulaCoefficients()
CalculateFormulaCoefficients(first_time, fallback_nan, g, c) ==
  PixelLoop(AllocateCoefficients(first_time, g, c), fallback_nan, g, 0)

(***************************************************************************)
(* RadiationIntegrator::Integrate                                          *)
(***************************************************************************)
RunInit == [ncalls |-> 0, hist |-> <<>>]
\* the driver's totals and the wall clock, which advances by at most tick between two
\* readings; the time_*_start and time_*_end are the locals of the last call
TmInit(tick) ==
  [clock |-> 0, tick |-> tick, time_sample |-> 0, time_integrate |-> 0,
   time_sample_start |-> 0, time_sample_end |-> 0, time_integrate_start |-> 0,
   time_integrate_end |-> 0]

\* no FindZTurnings call is modelled
ZIdle == [pc |-> "idle"]

\* no parallel region is running
ParIdle == [pc |-> "idle", pos |-> <<>>, log |-> {}, todo |-> <<>>]

CoefInit == [j_i |-> <<>>, alpha_i |-> <<>>]

\* the calls of the block "Sample simulation data"
SampleCallsMutEveryCall(s) ==
  IF s.model_type # "simulation" THEN <<>>
  ELSE (IF s.first_time THEN <<"ObtainGridData">> ELSE <<>>)
       \o (IF s.adaptive_level > 0 THEN <<"CalculateSimulationSampling">>
           ELSE (IF s.checkpoint_sample_load THEN <<"LoadSampling">>
                 ELSE <<"CalculateSimulationSampling">>)
                \o (IF s.checkpoint_sample_save THEN <<"SaveSampling">> ELSE <<>>))
       \o <<"SampleSimulation">>

SampleCalls(s) ==
  IF s.model_type # "simulation" THEN <<>>
  ELSE (IF s.first_time THEN <<"ObtainGridData">> ELSE <<>>)
       \o (IF s.adaptive_level > 0 THEN <<"CalculateSimulationSampling">>
           ELSE IF s.first_time
             THEN (IF s.checkpoint_sample_load THEN <<"LoadSampling">>
                   ELSE <<"CalculateSimulationSampling">>)
                  \o (IF s.checkpoint_sample_save THEN <<"SaveSampling">> ELSE <<>>)
           ELSE IF s.slow_light_on THEN <<"CalculateSimulationSampling">>
           ELSE <<>>)
       \o <<"SampleSimulation">>

\* the calls of the blocks "Integrate according to simulation data" and "... to formula"
IntegrateCallsMutNoLight(s) ==
  IF s.model_type = "simulation"
    THEN <<"CalculateSimulationCoefficients">>
         \o (IF s.image_polarization THEN <<"IntegratePolarizedRadiation">>
             ELSE IF \/ s.image_light \/ s.image_time \/ s.image_length \/ s.image_lambda
                     \/ s.image_emission \/ s.image_tau \/ s.image_lambda_ave
                     \/ s.image_emission_ave \/ s.image_tau_int
               THEN <<"IntegrateUnpolarizedRadiation">>
             ELSE <<>>)
         \o (IF s.render_num_images > 0 THEN <<"Render">> ELSE <<>>)
    ELSE <<"CalculateFormulaCoefficients", "IntegrateUnpolarizedRadiation">>

IntegrateCalls(s) ==
  IF s.model_type = "simulation"
    THEN <<"CalculateSimulationCoefficients">>
         \o (IF s.image_light /\ s.image_polarization THEN <<"IntegratePolarizedRadiation">>
             ELSE IF \/ s.image_light \/ s.image_time \/ s.image_length \/ s.image_lambda
                     \/ s.image_emission \/ s.image_tau \/ s.image_lambda_ave
                     \/ s.image_emission_ave \/ s.image_tau_int
               THEN <<"IntegrateUnpolarizedRadiation">>
             ELSE <<>>)
         \o (IF s.render_num_images > 0 THEN <<"Render">> ELSE <<>>)
    ELSE <<"CalculateFormulaCoefficients", "IntegrateUnpolarizedRadiation">>

\* CheckAdaptiveRefinement(): complete once the level reaches adaptive_max_level or when no
\* tile is flagged
CheckAdaptiveRefinement(s, any_flagged) ==
  s.adaptive_level = s.adaptive_max_level \/ ~any_flagged

\* bool adaptive_complete = true; if (adaptive_max_level > 0) adaptive_complete = Check...;
AdaptiveComplete(s, any_flagged) ==
  IF s.adaptive_max_level > 0 THEN CheckAdaptiveRefinement(s, any_flagged) ELSE TRUE

\* if (adaptive_complete) { adaptive_num_levels = adaptive_level; adaptive_level = 0; }
\* else adaptive_level++;   first_time = false;
UpdateLevelMutAlways(s, complete) ==
  [s EXCEPT !.adaptive_level = @ + 1, !.first_time = FALSE]

UpdateLevelMutFirst(s, complete) ==
  IF complete
    THEN [s EXCEPT !.adaptive_num_levels = s.adaptive_level, !.adaptive_level = 0,
                   !.first_time = TRUE]
    ELSE [s EXCEPT !.adaptive_level = @ + 1, !.first_time = FALSE]

UpdateLevelMutKeep(s, complete) ==
  IF complete
    THEN [s EXCEPT !.adaptive_num_levels = s.adaptive_level, !.first_time = FALSE]
    ELSE [s EXCEPT !.adaptive_level = @ + 1, !.first_time = FALSE]

UpdateLevel(s, complete) ==
  IF complete
    THEN [s EXCEPT !.adaptive_num_levels = s.adaptive_level, !.adaptive_level = 0,
                   !.first_time = FALSE]
    ELSE [s EXCEPT !.adaptive_level = @ + 1, !.first_time = FALSE]

\* the timers after a call whose readings of omp_get_wtime() are t1 <= t2 <= t3 (taken at
\* lines 727, 744 and 780 for a simulation; at 764 and 780, t1 and t3, for a formula)
UpdateTimersMutOverlap(s, t, t1, t2, t3) ==
  LET sim == s.model_type = "simulation"
      ss == IF sim THEN t1 ELSE 0
      se == IF sim THEN t2 ELSE 0
      is == IF sim THEN ss ELSE t1
  IN [clock |-> t3, tick |-> t.tick, time_sample_start |-> ss, time_sample_end |-> se,
      time_integrate_start |-> is, time_integrate_end |-> t3,
      time_sample |-> t.time_sample + (se - ss),
      time_integrate |-> t.time_integrate + (t3 - is)]

UpdateTimers(s, t, t1, t2, t3) ==
  LET sim == s.model_type = "simulation"
      ss == IF sim THEN t1 ELSE 0
      se == IF sim THEN t2 ELSE 0
      is == IF sim THEN se ELSE t1
  IN [clock |-> t3, tick |-> t.tick, time_sample_start |-> ss, time_sample_end |-> se,
      time_integrate_start |-> is, time_integrate_end |-> t3,
      time_sample |-> t.time_sample + (se - ss),
      time_integrate |-> t.time_integrate + (t3 - is)]

\* bool Integrate(snapshot, &time_sample, &time_integrate)
Integrate ==
  /\ ri.phase = "constructed"
  /\ run.ncalls < MaxCalls
  /\ \E any_flagged \in (IF ri.adaptive_max_level > 0 THEN BOOLEAN ELSE {FALSE}), d1, d2, d3 \in 0..tm.tick :
       LET complete == AdaptiveComplete(ri, any_flagged)
           formula == ri.model_type = "formula"
           s1 == IF formula /\ ri.first_time
                   THEN Allocate(Allocate(ri, "coefficient", "j_i", 0),
                                 "coefficient", "alpha_i", 0)
                   ELSE ri
           t1 == tm.clock + d1
           t2 == IF formula THEN t1 ELSE t1 + d2
       IN /\ ri' = UpdateLevel(s1, complete)
          /\ coef' = IF formula
                       THEN CalculateFormulaCoefficients(ri.first_time, ri.fallback_nan,
                                                         geo, coef)
                       ELSE coef
          /\ tm' = UpdateTimers(ri, tm, t1, t2, t2 + d3)
          /\ run' = [ncalls |-> run.ncalls + 1,
                     hist |-> Append(run.hist,
                                [level |-> ri.adaptive_level, first |-> ri.first_time,
                                 calls |-> SampleCalls(ri) \o IntegrateCalls(ri),
                                 checked |-> ri.adaptive_max_level > 0,
                                 any_flagged |-> ri.adaptive_max_level > 0 /\ any_flagged,
                                 ret |-> complete])]
  /\ UNCHANGED <<drv, inp, geo, par, zt>>

(***************************************************************************)
(* Inputs                                                                  *)
(***************************************************************************)
\* an input file for the formula model that selects image_light alone, every key present
BaseInput ==
  [absent |-> {}, garbage |-> 0, model_type |-> "formula", num_threads |-> 1,
   checkpoint_sample_save |-> FALSE, checkpoint_sample_load |-> FALSE,
   simulation_interp |-> FALSE, plasma_model |-> "ti_te_beta", plasma_power_frac |-> 0,
   plasma_kappa_frac |-> 0, plasma_kappa |-> 40, slow_light_on |-> FALSE,
   fallback_nan |-> TRUE, camera_resolution |-> 4,
   image_light |-> TRUE, image_polarization |-> FALSE, image_time |-> FALSE,
   image_length |-> FALSE, image_lambda |-> FALSE, image_emission |-> FALSE,
   image_tau |-> FALSE, image_lambda_ave |-> FALSE, image_emission_ave |-> FALSE,
   image_tau_int |-> FALSE,
   render_num_images |-> 0, render_num_features |-> <<>>, render_types |-> <<>>,
   adaptive_max_level |-> 0, adaptive_block_size |-> 2,
   adaptive_val_frac |-> 0, adaptive_abs_grad_frac |-> -1, adaptive_rel_grad_frac |-> -1,
   adaptive_abs_lapl_frac |-> -1, adaptive_rel_lapl_frac |-> -1]

ModelTypes == {"simulation", "formula"}

\* num_images rendered images of num_features features of one type each
RenderOf(in, num_images, num_features, type) ==
  [in EXCEPT !.render_num_images = num_images,
             !.render_num_features = [i \in 1..num_images |-> num_features],
             !.render_types = [i \in 1..num_images |-> [f \in 1..num_features |-> type]]]


\* in with the fields of o replaced
Override(in, o) == [f \in DOMAIN in |-> IF f \in DOMAIN o THEN o[f] ELSE in[f]]

ImageFlags ==
  [image_light : BOOLEAN, image_time : BOOLEAN, image_length : BOOLEAN,
   image_lambda : BOOLEAN, image_emission : BOOLEAN, image_tau : BOOLEAN,
   image_lambda_ave : BOOLEAN, image_emission_ave : BOOLEAN, image_tau_int : BOOLEAN]

\* every image selection, with and without a rendering and a checkpoint conflict
ImageInputs ==
  {RenderOf(Override(Override(BaseInput, f), o), r, 1, "fill") :
     f \in ImageFlags, r \in 0..1,
     o \in [model_type : ModelTypes, image_polarization : BOOLEAN,
            checkpoint_sample_load : {TRUE}, checkpoint_sample_save : BOOLEAN]}

\* the adaptive options; garbage is what the uninitialized adaptive_block_size holds
AdaptiveInputs ==
  {Override(BaseInput, o) :
     o \in [model_type : ModelTypes, image_light : BOOLEAN, image_time : {TRUE},
            adaptive_max_level : 0..MaxLevel, adaptive_block_size : (-1)..MaxBlock,
            camera_resolution : 1..MaxRes, num_threads : 1..MaxThreads,
            garbage : {0, MaxBlock}]}

RenderInputs ==
  {RenderOf(Override(BaseInput, o), r, n, t) :
     o \in [model_type : ModelTypes, image_light : BOOLEAN, adaptive_max_level : 0..1,
            num_threads : 1..MaxThreads],
     r \in 0..MaxImages, n \in 0..MaxFeatures, t \in {"rise", "fall", "fill"}}

\* input files that lack one key
AbsentInputs ==
  {Override(BaseInput, o) :
     o \in [model_type : ModelTypes, adaptive_max_level : 0..1,
            camera_resolution : {MaxRes - 1, MaxRes},
            absent : {{K(n)} : n \in {"formula_mass", "simulation_coord", "image_frequency",
                                      "adaptive_block_size", "adaptive_val_cut"}}]}

\* the keys of the model-specific blocks of the constructor
SimulationKeys ==
  {K(n) : n \in {"simulation_a", "simulation_coord", "simulation_m_msun",
                 "simulation_rho_cgs", "simulation_interp", "simulation_block_interp"}}

PlasmaKeys ==
  {K(n) : n \in {"plasma_mu", "plasma_ne_ni", "plasma_model", "plasma_rat_low",
                 "plasma_rat_high", "plasma_power_frac", "plasma_p", "plasma_gamma_min",
                 "plasma_gamma_max", "plasma_kappa_frac", "plasma_kappa", "plasma_w",
                 "plasma_sigma_max"}}

SlowSubKeys == {K(n) : n \in {"slow_interp", "slow_chunk_size", "slow_t_start", "slow_dt"}}

FallbackKeys == {K(n) : n \in {"fallback_rho", "fallback_pgas", "fallback_kappa"}}

BlockKeys ==
  {K(n) : n \in {"formula_spin", "slow_light_on", "adaptive_block_size"}}
    \cup FormulaKeys \cup SimulationKeys \cup PlasmaKeys \cup SlowSubKeys \cup FallbackKeys
    \cup {K(c.frac) : c \in AdaptiveCriteria} \cup {K(c.cut) : c \in AdaptiveCriteria}

\* input files that lack one key of a model-specific block, for each choice of the options
\* that decide which blocks are read
RequiredInputs ==
  {Override(BaseInput, o) :
     o \in [model_type : ModelTypes, slow_light_on : BOOLEAN, fallback_nan : BOOLEAN,
            plasma_model : {"ti_te_beta", "code_kappa"}, adaptive_max_level : 0..1,
            adaptive_val_frac : {-1, 0}, absent : {{k} : k \in BlockKeys}]}

CtorInputs ==
  ImageInputs \cup AdaptiveInputs \cup RenderInputs \cup AbsentInputs \cup RequiredInputs

\* the geodesic integrator's data: two pixels of at most two samples, the second ray flagged
BaseGeo ==
  [camera_num_pix |-> 2, geodesic_num_steps |-> 2, sample_flags |-> <<FALSE, TRUE>>,
   sample_num |-> <<2, 1>>]

DrvIdle ==
  [pc |-> "exited", argc |-> 0, argv |-> <<>>, fs |-> <<>>, input_file |-> "",
   outcome |-> "none", out |-> <<>>, exit |-> 0]

(***************************************************************************)
(* Construction and destruction of one RadiationIntegrator                 *)
(***************************************************************************)
InitCtor ==
  /\ drv = DrvIdle
  /\ inp \in CtorInputs
  /\ geo = BaseGeo
  /\ ri = NewObject(inp)
  /\ run = RunInit /\ tm = TmInit(0) /\ coef = CoefInit /\ par = ParIdle
  /\ zt = ZIdle

\* new RadiationIntegrator(p_input_reader, p_geodesic_integrator, p_athena_reader)
Construct ==
  /\ ri.phase = "none"
  /\ LET s == Ctor(inp, geo) IN
       ri' = [s EXCEPT !.phase = IF Failed(s) THEN "failed" ELSE "constructed"]
  /\ UNCHANGED <<drv, inp, geo, run, tm, coef, par, zt>>

\* delete p_radiation_integrator
Destroy ==
  /\ ri.phase = "constructed"
  /\ ri' = [Dtor(ri) EXCEPT !.phase = "destroyed"]
  /\ UNCHANGED <<drv, inp, geo, run, tm, coef, par, zt>>

NextCtor == Construct \/ Destroy

SpecCtor == InitCtor /\ [][NextCtor]_vars


\* the options the sampling block of Integrate branches on
SamplingInputs ==
  {Override(BaseInput, o) :
     o \in [model_type : ModelTypes, checkpoint_sample_save : BOOLEAN,
            checkpoint_sample_load : BOOLEAN, slow_light_on : BOOLEAN,
            adaptive_max_level : 0..MaxLevel]}

\* the options the integration block of Integrate branches on
TransportInputs ==
  {RenderOf(Override(BaseInput, o), r, 1, "fill") :
     o \in [model_type : ModelTypes, image_light : BOOLEAN, image_polarization : BOOLEAN,
            image_tau : BOOLEAN, adaptive_max_level : 0..1, garbage : {0, 1}],
     r \in 0..1}

RunInputs == SamplingInputs \cup TransportInputs

\* the inputs of the timing runs: both model types, no refinement
TimingInputs == {Override(BaseInput, o) : o \in [model_type : ModelTypes]}

(***************************************************************************)
(* One RadiationIntegrator: construction, Integrate calls, destruction     *)
(***************************************************************************)
Init ==
  /\ drv = DrvIdle
  /\ inp \in RunInputs
  /\ geo = BaseGeo
  /\ ri = NewObject(inp)
  /\ run = RunInit /\ tm = TmInit(0) /\ coef = CoefInit /\ par = ParIdle
  /\ zt = ZIdle

Next == Construct \/ Integrate \/ Destroy

Spec == Init /\ [][Next]_vars

\* the same object under a clock that advances by up to MaxTick between two readings
InitTime ==
  /\ drv = DrvIdle
  /\ inp \in TimingInputs
  /\ geo = BaseGeo
  /\ ri = NewObject(inp)
  /\ run = RunInit /\ tm = TmInit(MaxTick) /\ coef = CoefInit /\ par = ParIdle
  /\ zt = ZIdle

SpecTime == InitTime /\ [][Next]_vars

(***************************************************************************)
(* The parallel pixel loop of CalculateFormulaCoefficients                 *)
(* #pragma omp parallel for schedule(static): thread t of a team of T runs *)
(* one contiguous chunk of the iterations; each store is one step.         *)
(***************************************************************************)
\* first iteration of thread t's chunk, of n iterations shared by a team of nt threads
ChunkStart(n, nt, t) ==
  LET q == n \div nt
      r == n % nt
  IN IF t < r THEN t * (q + 1) ELSE r * (q + 1) + (t - r) * q

\* the stores of iterations m = from .. to - 1, in program order
RECURSIVE ChunkWrites(_, _, _, _)
ChunkWrites(fallback_nan, g, from, to) ==
  IF from >= to THEN <<>>
  ELSE PixelWrites(fallback_nan, g, from) \o ChunkWrites(fallback_nan, g, from + 1, to)

ThreadWrites(t) ==
  ChunkWrites(ri.fallback_nan, geo, ChunkStart(ri.camera_num_pix, ri.num_threads, t),
              ChunkStart(ri.camera_num_pix, ri.num_threads, t + 1))

\* the geodesic data of the loop: NumPix rays, each flagged or not, each with no sample, one
\* sample or a sample at every step
LoopGeos ==
  {[camera_num_pix |-> NumPix, geodesic_num_steps |-> MaxSteps, sample_flags |-> f,
    sample_num |-> k] :
     f \in [1..NumPix -> BOOLEAN], k \in [1..NumPix -> {0, 1, MaxSteps}]}

LoopInputs ==
  {Override(BaseInput, o) : o \in [fallback_nan : BOOLEAN, num_threads : 1..MaxThreads]}

\* the first Integrate call of a formula-model integrator has allocated j_i and alpha_i and
\* enters the parallel region; the static schedule hands thread t the stores of its chunk
InitLoop ==
  /\ drv = DrvIdle
  /\ inp \in LoopInputs
  /\ geo \in LoopGeos
  /\ ri = [Ctor(inp, geo) EXCEPT !.phase = "constructed"]
  /\ run = RunInit /\ tm = TmInit(0)
  /\ coef = AllocateCoefficients(TRUE, geo, CoefInit)
  /\ par = [pc |-> "loop", pos |-> [t \in 1..inp.num_threads |-> 0], log |-> {},
            todo |-> [t \in 1..inp.num_threads |-> ThreadWrites(t - 1)]]
  /\ zt = ZIdle

\* thread t executes its next store
WorkerStore(t) ==
  /\ par.pc = "loop"
  /\ par.pos[t + 1] < Len(par.todo[t + 1])
  /\ LET w == par.todo[t + 1][par.pos[t + 1] + 1] IN
       /\ coef' = Store(coef, w)
       /\ par' = [par EXCEPT !.pos[t + 1] = @ + 1,
                             !.log = @ \cup {[thread |-> t, arr |-> w.arr, m |-> w.m,
                                              n |-> w.n]}]
  /\ UNCHANGED <<drv, inp, geo, ri, run, tm, zt>>

\* the implicit barrier at the end of the loop
LoopJoin ==
  /\ par.pc = "loop"
  /\ \A t \in 0..(ri.num_threads - 1) : par.pos[t + 1] = Len(par.todo[t + 1])
  /\ par' = [par EXCEPT !.pc = "joined"]
  /\ UNCHANGED <<drv, inp, geo, ri, run, tm, coef, zt>>

NextLoop == (\E t \in 0..(ri.num_threads - 1) : WorkerStore(t)) \/ LoopJoin

SpecLoop == InitLoop /\ [][NextLoop]_vars

(***************************************************************************)
(* RadiationIntegrator::FindZTurnings                                      *)
(* z is sample_pos[adaptive_level](m, n, 3) for n = 0 .. MaxZSteps - 1;    *)
(* reads is the set of sample indices the call has read.                   *)
(***************************************************************************)
MIN_DIFF_N == 10

\* the sample read at index n (0 outside the array, with the read recorded all the same)
ZAt(z, n) == IF n \in DOMAIN z THEN z[n] ELSE 0

\* int n = num_steps - MIN_DIFF_N - 1
ZStartMutEnd(num_steps) == num_steps - 1

ZStart(num_steps) == num_steps - MIN_DIFF_N - 1

\* one pass of the loop body at index st.n; the result's n is the index the for statement's
\* n-- then decrements
ZStepMutNoSkip(z, cut, st) ==
  LET n == st.n
      find_1 == (ZAt(z, n + 1) - ZAt(z, n)) * (ZAt(z, n) - ZAt(z, n - 1))
      find_n == (ZAt(z, n + MIN_DIFF_N) - ZAt(z, n)) * (ZAt(z, n) - ZAt(z, n - MIN_DIFF_N))
      turn == find_1 < 0 \/ (find_1 = 0 /\ find_n < 0)
      count == st.z_turnings_count + (IF turn THEN 1 ELSE 0)
      n1 == n
      assign == cut >= 0 /\ st.n_start < 0 /\ count = cut + 1
  IN [n |-> n1, z_turnings_count |-> count,
      n_start |-> IF assign THEN n1 ELSE st.n_start,
      reads |-> st.reads \cup {n - 1, n, n + 1}
                  \cup (IF find_1 = 0 THEN {n - MIN_DIFF_N, n + MIN_DIFF_N} ELSE {}),
      examined |-> Append(st.examined, n),
      turnings |-> IF turn THEN Append(st.turnings, n) ELSE st.turnings,
      assigned |-> IF assign THEN Append(st.assigned, count) ELSE st.assigned]

ZStep(z, cut, st) ==
  LET n == st.n
      find_1 == (ZAt(z, n + 1) - ZAt(z, n)) * (ZAt(z, n) - ZAt(z, n - 1))
      find_n == (ZAt(z, n + MIN_DIFF_N) - ZAt(z, n)) * (ZAt(z, n) - ZAt(z, n - MIN_DIFF_N))
      turn == find_1 < 0 \/ (find_1 = 0 /\ find_n < 0)
      count == st.z_turnings_count + (IF turn THEN 1 ELSE 0)
      n1 == IF turn THEN n - MIN_DIFF_N ELSE n
      assign == cut >= 0 /\ st.n_start < 0 /\ count = cut + 1
  IN [n |-> n1, z_turnings_count |-> count,
      n_start |-> IF assign THEN n1 ELSE st.n_start,
      reads |-> st.reads \cup {n - 1, n, n + 1}
                  \cup (IF find_1 = 0 THEN {n - MIN_DIFF_N, n + MIN_DIFF_N} ELSE {}),
      examined |-> Append(st.examined, n),
      turnings |-> IF turn THEN Append(st.turnings, n) ELSE st.turnings,
      assigned |-> IF assign THEN Append(st.assigned, count) ELSE st.assigned]

\* for (...; n >= MIN_DIFF_N; n--) { body }
RECURSIVE ZLoop(_, _, _)
ZLoop(z, cut, st) ==
  IF st.n < MIN_DIFF_N THEN st
  ELSE LET s1 == ZStep(z, cut, st) IN ZLoop(z, cut, [s1 EXCEPT !.n = s1.n - 1])

\* the call's outputs (n_start, z_turnings_count by reference, the image element) and its trace
FindZTurnings(z, num_steps, n_start, z_turnings_count, cut) ==
  LET st == ZLoop(z, cut, [n |-> ZStart(num_steps), z_turnings_count |-> z_turnings_count,
                           n_start |-> n_start, reads |-> {}, examined |-> <<>>,
                           turnings |-> <<>>, assigned |-> <<>>])
  IN [n_start |-> st.n_start, z_turnings_count |-> st.z_turnings_count,
      image |-> st.z_turnings_count, reads |-> st.reads, examined |-> st.examined,
      turnings |-> st.turnings, assigned |-> st.assigned]

\* a ray whose z changes by one per sample, reverses direction at the samples of turns and
\* stands still for the step that follows each sample of flats
RECURSIVE ZRay(_, _, _)
ZRay(turns, flats, ray) ==
  IF Len(ray) >= MaxZSteps THEN ray
  ELSE LET n == Len(ray) - 1
           dir == IF Cardinality({t \in turns : t <= n}) % 2 = 0 THEN 1 ELSE -1
       IN ZRay(turns, flats, Append(ray, ray[Len(ray)] + (IF n \in flats THEN 0 ELSE dir)))

ZSamples(turns, flats) ==
  LET ray == ZRay(turns, flats, <<0>>) IN [n \in 0..(MaxZSteps - 1) |-> ray[n + 1]]

ZCase(turns, flats, num_steps, n_start, count, cut) ==
  [z |-> ZSamples(turns, flats), num_steps |-> num_steps, n_start |-> n_start,
   z_turnings_count |-> count, cut_z_turnings |-> cut]

\* the calls on rays of len samples: full rays with one or two reversals under each setting
\* of the cut; full rays with one reversal and one standstill; rays of every number of steps
\* with one reversal
ZCalls(len) ==
  {ZCase({a, b}, {}, len, p[1], p[2], p[3]) :
     a \in 1..(len - 2), b \in 1..(len - 2),
     p \in {<<-1, 0, -1>>, <<-1, 0, 0>>, <<-1, 0, 1>>, <<-1, 1, 0>>, <<5, 0, 0>>}}
  \cup {ZCase({a}, {f}, len, -1, 0, 0) : a \in 1..(len - 2), f \in 0..(len - 2)}
  \cup {ZCase({a}, {}, k, -1, 0, c) : a \in 1..(len - 2), k \in 0..len, c \in {-1, 0}}

InitZ ==
  /\ drv = DrvIdle /\ inp = BaseInput /\ geo = BaseGeo /\ ri = NewObject(inp)
  /\ run = RunInit /\ tm = TmInit(0) /\ coef = CoefInit /\ par = ParIdle
  /\ \E c \in ZCalls(MaxZSteps) : zt = [pc |-> "call", in |-> c]

\* FindZTurnings(m, num_steps, n_start, z_turnings_count)
CallFindZTurnings ==
  /\ zt.pc = "call"
  /\ zt' = [pc |-> "done", in |-> zt.in,
            out |-> FindZTurnings(zt.in.z, zt.in.num_steps, zt.in.n_start,
                                  zt.in.z_turnings_count, zt.in.cut_z_turnings)]
  /\ UNCHANGED <<drv, inp, geo, ri, run, tm, coef, par>>

NextZ == CallFindZTurnings

SpecZ == InitZ /\ [][NextZ]_vars

(***************************************************************************)
(* Properties of construction and destruction                              *)
(***************************************************************************)
Built == ri.phase \in {"constructed", "destroyed"}

\* the input's adaptive_block_size is given and does not divide camera_resolution
\* (C's % for a non-negative dividend: a % b # 0 exactly when a % |b| # 0)
InputNotDividing ==
  /\ K("adaptive_block_size") \notin inp.absent
  /\ inp.adaptive_block_size # 0
  /\ inp.camera_resolution
       % (IF inp.adaptive_block_size < 0 THEN -inp.adaptive_block_size
          ELSE inp.adaptive_block_size) # 0

\* C2 as stated: for every configuration a block size that does not divide the resolution
\* is rejected with a BlacklightException, and a constructed integrator's block size divides
C2_RejectedAlways ==
  ri.phase # "none" =>
    /\ InputNotDividing => (ri.phase = "failed" /\ ri.err \in BlacklightErrors)
    /\ Built => ~InputNotDividing

\* C2 amended: with adaptive_max_level > 0 a block size that is not positive or does not
\* divide the resolution makes construction throw (a BlacklightException when no key is
\* absent), the divide error is thrown only for such a block size, and a constructed
\* integrator with adaptive_max_level > 0 has a positive block size dividing the resolution
C2_RejectedWhenAdaptive ==
  ri.phase # "none" =>
    /\ (inp.adaptive_max_level > 0 /\ K("adaptive_block_size") \notin inp.absent
        /\ (inp.adaptive_block_size <= 0 \/ InputNotDividing))
         => (ri.phase = "failed" /\ (inp.absent = {} => ri.err \in BlacklightErrors))
    /\ ri.err = ErrBlockDivide
         => (inp.adaptive_max_level > 0 /\ inp.adaptive_block_size > 0 /\ InputNotDividing)
    /\ (Built /\ ri.adaptive_max_level > 0)
         => (ri.adaptive_block_size > 0
             /\ ri.camera_resolution % ri.adaptive_block_size = 0)

C2_Witness ==
  /\ ri.phase = "failed" /\ ri.err = ErrBlockDivide
  /\ inp.adaptive_block_size > 1 /\ inp.camera_resolution > inp.adaptive_block_size

\* one of the ten image selections of the input is true
InputSelected ==
  \/ \E n \in {"image_light", "image_time", "image_length", "image_lambda", "image_emission",
               "image_tau", "image_lambda_ave", "image_emission_ave", "image_tau_int"} :
       SetTrue(inp, n)
  \/ K("render_num_images") \notin inp.absent /\ inp.render_num_images > 0

\* one of the selections the model type honours is true
EffectiveSelected ==
  \/ \E n \in {"image_light", "image_time", "image_length", "image_lambda", "image_emission",
               "image_tau"} : SetTrue(inp, n)
  \/ /\ inp.model_type = "simulation"
     /\ \/ \E n \in {"image_lambda_ave", "image_emission_ave", "image_tau_int"} :
             SetTrue(inp, n)
        \/ K("render_num_images") \notin inp.absent /\ inp.render_num_images > 0

\* C3 as stated: construction fails with "No image or rendering selected." if and only if
\* none of the ten selections of the input is true
C3_NoImageIff ==
  ri.phase # "none" => (ri.err = ErrNoImage <=> ~InputSelected)

\* C3 amended: unless an earlier step of the constructor throws (an absent key, the two
\* checkpoint errors), construction fails with "No image or rendering selected." if and only
\* if none of the selections the model type honours is true (lambda_ave, emission_ave,
\* tau_int and render count for a simulation only)
C3_NoImageEffective ==
  (ri.phase # "none" /\ ri.err \notin {ErrOptional, ErrSaveLoad, ErrSlowCheckpoint})
    => (ri.err = ErrNoImage <=> ~EffectiveSelected)

C3_Witness ==
  /\ ri.phase = "failed" /\ ri.err = ErrNoImage
  /\ inp.model_type = "formula" /\ inp.image_tau_int /\ inp.render_num_images > 0

\* the groups of q in order, each run of one group counted once
GroupOrder(q) ==
  LET starts == SelectSeq([i \in 1..Len(q) |-> i],
                          LAMBDA i : i = 1 \/ q[i].grp # q[i - 1].grp)
  IN [k \in 1..Len(starts) |-> q[starts[k]].grp]

Reverse(q) == [i \in 1..Len(q) |-> q[Len(q) + 1 - i]]

Count(q, a) == Cardinality({i \in 1..Len(q) : q[i] = a})

\* every array the constructor allocated is released exactly once, and nothing else is
ReleasedOnce ==
  /\ \A a \in SeqRange(ri.allocs) : Count(ri.allocs, a) = 1 /\ Count(ri.frees, a) = 1
  /\ SeqRange(ri.frees) \subseteq SeqRange(ri.allocs)

\* C9 as stated: the destructor releases the groups in the reverse of the order of
\* construction, every array exactly once
C9_ReverseOrder ==
  ri.phase = "destroyed" =>
    (GroupOrder(ri.frees) = Reverse(GroupOrder(ri.allocs)) /\ ReleasedOnce)

\* C9 amended: the destructor releases the groups in the order the constructor created
\* them (rendering input first, adaptive data last), every array exactly once
C9_SameOrder ==
  ri.phase = "destroyed" =>
    (GroupOrder(ri.frees) = GroupOrder(ri.allocs) /\ ReleasedOnce)

C9_Witness ==
  /\ ri.phase = "destroyed"
  /\ GroupOrder(ri.frees)
       = <<"render_input", "sample", "coefficient", "image", "render", "adaptive">>
  /\ ri.render_num_images > 1 /\ ri.num_threads > 1


(***************************************************************************)
(* Properties of sequences of Integrate calls                              *)
(***************************************************************************)
Calls(i) == SeqRange(run.hist[i].calls)

InputSaveAndLoad ==
  SetTrue(inp, "checkpoint_sample_save") /\ SetTrue(inp, "checkpoint_sample_load")

\* no Integrate call so far invoked both LoadSampling and SaveSampling
NoCallLoadsAndSaves ==
  \A i \in 1..Len(run.hist) : ~("LoadSampling" \in Calls(i) /\ "SaveSampling" \in Calls(i))

\* C4 as stated: a configuration with checkpoint_sample_save and checkpoint_sample_load both
\* true is rejected at construction, and no Integrate call invokes both LoadSampling and
\* SaveSampling
C4_RejectedAlways ==
  ri.phase # "none" => ((InputSaveAndLoad => ri.phase = "failed") /\ NoCallLoadsAndSaves)

\* C4 amended: under the simulation model a configuration with both true is rejected at
\* construction ("Cannot both save and load a sample checkpoint."); under the formula model
\* the two selections are ignored with a warning each and never cause that rejection; and no
\* Integrate call of a constructed integrator invokes both LoadSampling and SaveSampling
C4_ExclusiveSimulation ==
  ri.phase # "none" =>
    /\ (InputSaveAndLoad /\ inp.model_type = "simulation")
         => (ri.phase = "failed" /\ (inp.absent = {} => ri.err = ErrSaveLoad))
    /\ (InputSaveAndLoad /\ inp.model_type = "formula")
         => /\ ri.err # ErrSaveLoad
            /\ Built => {"Ignoring checkpoint_sample_save selection.",
                         "Ignoring checkpoint_sample_load selection."}
                          \subseteq SeqRange(ri.warnings)
    /\ (Built /\ ri.model_type = "simulation")
         => ~(ri.checkpoint_sample_save /\ ri.checkpoint_sample_load)
    /\ NoCallLoadsAndSaves

C4_Witness ==
  /\ InputSaveAndLoad /\ inp.model_type = "formula" /\ ri.phase = "constructed"
  /\ run.ncalls > 1

DataAllocations(arr) == Count(ri.allocs, Block("coefficient", arr, 0, "data"))

\* C8: first_time is true until the first Integrate call finishes, false after every call and
\* never set back to true; under the formula model j_i and alpha_i are allocated exactly
\* once, by the first call
C8_AllocatedOnce ==
  /\ [](/\ ri.first_time <=> run.ncalls = 0
        /\ inp.model_type = "formula" =>
             /\ DataAllocations("j_i") = (IF run.ncalls = 0 THEN 0 ELSE 1)
             /\ DataAllocations("alpha_i") = (IF run.ncalls = 0 THEN 0 ELSE 1)
             /\ (coef.j_i # <<>> /\ coef.alpha_i # <<>>) <=> run.ncalls > 0)
  /\ [][~ri.first_time => ~ri'.first_time]_vars

C8_Witness ==
  /\ inp.model_type = "formula" /\ run.ncalls > 1 /\ ~ri.first_time
  /\ DataAllocations("j_i") = 1 /\ DataAllocations("alpha_i") = 1

\* C10: every Integrate call adds the elapsed sample and integrate times to the totals, which
\* never decrease; a formula call leaves time_sample unchanged; in a simulation call the
\* integrate phase starts at the clock reading that ends the sample phase, so the two
\* increments add up to the time from the first reading to the last
C10_TimersAccumulate ==
  [][run'.ncalls = run.ncalls + 1 =>
       /\ tm'.time_sample = tm.time_sample + (tm'.time_sample_end - tm'.time_sample_start)
       /\ tm'.time_integrate
            = tm.time_integrate + (tm'.time_integrate_end - tm'.time_integrate_start)
       /\ tm'.time_sample >= tm.time_sample
       /\ tm'.time_integrate >= tm.time_integrate
       /\ ri.model_type = "formula" => tm'.time_sample = tm.time_sample
       /\ ri.model_type = "simulation" =>
            /\ tm'.time_integrate_start = tm'.time_sample_end
            /\ (tm'.time_sample - tm.time_sample) + (tm'.time_integrate - tm.time_integrate)
                 = tm'.time_integrate_end - tm'.time_sample_start]_vars

C10_Witness ==
  /\ ri.model_type = "simulation" /\ run.ncalls > 1
  /\ tm.time_sample > 1 /\ tm.time_integrate > 1
  /\ tm.time_sample + tm.time_integrate < tm.clock


(***************************************************************************)
(* Properties of the pixel loop                                            *)
(***************************************************************************)
Pixels == 0..(geo.camera_num_pix - 1)

\* C6: after the loop, for every pixel m with sample_num(m) > 0: with fallback_nan and the
\* ray flagged, j_i(m,n) and alpha_i(m,n) are NaN for every n < sample_num(m); otherwise every
\* such entry holds the formula value of its own sample
C6_NanOrFormula ==
  par.pc = "joined" =>
    \A m \in Pixels :
      \A n \in 0..(geo.sample_num[m + 1] - 1) :
        IF ri.fallback_nan /\ geo.sample_flags[m + 1]
          THEN /\ coef.j_i[m + 1][n + 1] = NaN /\ coef.alpha_i[m + 1][n + 1] = NaN
               /\ \A k \in 1..geo.geodesic_num_steps :
                    /\ coef.j_i[m + 1][k] \in {NaN, Uninit}
                    /\ coef.alpha_i[m + 1][k] \in {NaN, Uninit}
          ELSE /\ coef.j_i[m + 1][n + 1] = FormulaJ(m, n)
               /\ coef.alpha_i[m + 1][n + 1] = FormulaAlpha(m, n)

C6_Witness ==
  /\ par.pc = "joined" /\ ri.fallback_nan
  /\ \E m1, m2 \in Pixels :
       /\ geo.sample_flags[m1 + 1] /\ geo.sample_num[m1 + 1] > 1
       /\ ~geo.sample_flags[m2 + 1] /\ geo.sample_num[m2 + 1] > 1

\* C7: the iteration of pixel m stores only to elements (m, n) with 0 <= n < sample_num(m),
\* no element is stored to by two threads, rows of pixels with sample_num(m) <= 0 are
\* untouched, and after the loop the arrays equal those of the sequential execution
C7_DisjointWrites ==
  /\ \A w \in par.log : w.n >= 0 /\ w.n < geo.sample_num[w.m + 1]
  /\ \A w \in par.log :
       /\ ChunkStart(ri.camera_num_pix, ri.num_threads, w.thread) <= w.m
       /\ w.m < ChunkStart(ri.camera_num_pix, ri.num_threads, w.thread + 1)
  /\ \A w1, w2 \in par.log :
       (w1.arr = w2.arr /\ w1.m = w2.m /\ w1.n = w2.n) => w1.thread = w2.thread
  /\ par.pc \in {"loop", "joined"} =>
       \A m \in Pixels :
         geo.sample_num[m + 1] <= 0 =>
           /\ coef.j_i[m + 1] = [n \in 1..geo.geodesic_num_steps |-> Uninit]
           /\ coef.alpha_i[m + 1] = [n \in 1..geo.geodesic_num_steps |-> Uninit]
  /\ par.pc = "joined" =>
       coef = CalculateFormulaCoefficients(TRUE, ri.fallback_nan, geo, CoefInit)

C7_Witness ==
  /\ par.pc = "joined" /\ ri.num_threads > 1
  /\ \E w1, w2 \in par.log : w1.thread # w2.thread
  /\ \E m \in Pixels : geo.sample_num[m + 1] <= 0


(***************************************************************************)
(* Polarized transport                                                     *)
(***************************************************************************)
\* C11: a call invokes IntegratePolarizedRadiation only for a simulation whose input sets
\* image_light and image_polarization; every call of the formula model runs
\* CalculateFormulaCoefficients then IntegrateUnpolarizedRadiation and nothing else, an
\* image_polarization selection of its input is answered with a warning, and its light image
\* is 1 channel wide (4 for a polarized simulation)
C11_PolarizedSimulationOnly ==
  Built =>
    /\ \A i \in 1..Len(run.hist) :
         /\ "IntegratePolarizedRadiation" \in Calls(i)
              => /\ inp.model_type = "simulation"
                 /\ SetTrue(inp, "image_light") /\ SetTrue(inp, "image_polarization")
         /\ inp.model_type = "formula"
              => run.hist[i].calls
                   = <<"CalculateFormulaCoefficients", "IntegrateUnpolarizedRadiation">>
    /\ (inp.model_type = "formula" /\ SetTrue(inp, "image_polarization"))
         => "Ignoring image_polarization selection." \in SeqRange(ri.warnings)
    /\ ri.image_light
         => ri.image_offset_time
              = (IF inp.model_type = "simulation" /\ inp.image_polarization THEN 4 ELSE 1)

C11_Witness ==
  /\ ri.phase = "constructed" /\ inp.model_type = "formula"
  /\ inp.image_light /\ inp.image_polarization /\ inp.garbage # 0
  /\ run.ncalls > 1 /\ ri.image_offset_time = 1


(***************************************************************************)
(* Absent configuration fields                                             *)
(***************************************************************************)
\* the one key the input lacks
AbsentKey == CHOOSE k \in inp.absent : TRUE

\* what the configuration must be for key k to be required
Requires(in, k) ==
  LET sim == in.model_type = "simulation"
      adaptive == in.adaptive_max_level > 0 IN
  IF k \in FormulaKeys \cup {K("formula_spin")} THEN ~sim
  ELSE IF k \in SimulationKeys \cup PlasmaKeys \cup {K("slow_light_on")} THEN sim
  ELSE IF k \in SlowSubKeys THEN sim /\ in.slow_light_on
  ELSE IF k \in FallbackKeys THEN sim /\ ~in.fallback_nan
  ELSE IF k \in {K(c.cut) : c \in AdaptiveCriteria}
    THEN adaptive /\ \E c \in AdaptiveCriteria : k = K(c.cut) /\ in[c.frac] >= 0
  ELSE adaptive

\* the keys whose block reads them on no further condition
ReadAlways ==
  (BlockKeys
     \ {K(n) : n \in {"simulation_block_interp", "plasma_rat_low", "plasma_rat_high", "plasma_p",
                      "plasma_gamma_min", "plasma_gamma_max", "plasma_kappa", "plasma_w",
                      "fallback_pgas", "fallback_kappa"}})

\* C12: for an input that lacks exactly one key of the formula, simulation, plasma, slow-light,
\* fallback or adaptive block: construction ends with the absent-value exception only when
\* the configuration requires the key; when it does not, construction ends as it does with
\* the key present; when it does and the block reads the key unconditionally, construction is
\* rejected
C12_AbsentRejectedWhenRequired ==
  (ri.phase # "none" /\ Cardinality(inp.absent) = 1 /\ inp.absent \subseteq BlockKeys) =>
    /\ ri.err = ErrOptional => Requires(inp, AbsentKey)
    /\ ~Requires(inp, AbsentKey)
         => ri.err = Ctor([inp EXCEPT !.absent = {}], geo).err
    /\ (Requires(inp, AbsentKey) /\ AbsentKey \in ReadAlways) => ri.phase = "failed"

C12_Witness ==
  /\ ri.phase = "failed" /\ ri.err = ErrOptional
  /\ inp.absent = {K("adaptive_val_cut")} /\ inp.model_type = "simulation"
  /\ inp.slow_light_on /\ K("slow_dt") \notin inp.absent /\ ~inp.fallback_nan


(***************************************************************************)
(* Properties of FindZTurnings                                             *)
(***************************************************************************)
\* C13: after a turning is counted at sample n none of n-10..n-1 is examined, so two counted
\* turnings lie more than 10 samples apart; every counted turning has at least 10 samples on
\* either side; the image element of the pixel is the final count, the count passed in plus
\* the turnings counted
C13_MinimumStride ==
  zt.pc = "done" =>
    LET t == zt.out.turnings IN
    /\ \A i \in 1..Len(t) :
         /\ SeqRange(zt.out.examined) \cap ((t[i] - MIN_DIFF_N)..(t[i] - 1)) = {}
         /\ t[i] >= MIN_DIFF_N /\ t[i] <= zt.in.num_steps - 1 - MIN_DIFF_N
    /\ \A i, j \in 1..Len(t) : i < j => t[i] - t[j] > MIN_DIFF_N
    /\ zt.out.z_turnings_count = zt.in.z_turnings_count + Len(t)
    /\ zt.out.image = zt.out.z_turnings_count

C13_Witness ==
  /\ zt.pc = "done" /\ Len(zt.out.turnings) = 2
  /\ zt.out.turnings[1] - zt.out.turnings[2] = MIN_DIFF_N + 1
  /\ zt.in.z_turnings_count = 1 /\ zt.out.image = 3

\* C18: every sample index read lies in 0..num_steps-1, and none is read when num_steps < 21;
\* with n_start passed in negative it is assigned at most once, to an index of the ray, and
\* only with cut_z_turnings >= 0 and the count equal to cut_z_turnings + 1
C18_ReadsInsideRay ==
  zt.pc = "done" =>
    /\ zt.out.reads \subseteq 0..(zt.in.num_steps - 1)
    /\ zt.in.num_steps < 2 * MIN_DIFF_N + 1 => zt.out.reads = {}
    /\ zt.in.n_start < 0 =>
         /\ Len(zt.out.assigned) <= 1
         /\ Len(zt.out.assigned) = 1 =>
              /\ zt.out.n_start \in 0..(zt.in.num_steps - 1)
              /\ zt.in.cut_z_turnings >= 0
              /\ zt.out.assigned[1] = zt.in.cut_z_turnings + 1
         /\ Len(zt.out.assigned) = 0 => zt.out.n_start = zt.in.n_start
    /\ zt.in.n_start >= 0 => (zt.out.assigned = <<>> /\ zt.out.n_start = zt.in.n_start)

C18_Witness ==
  /\ zt.pc = "done" /\ zt.in.n_start < 0 /\ Len(zt.out.assigned) = 1
  /\ zt.out.n_start = 0
  /\ (zt.in.num_steps - 1) \in zt.out.reads


(***************************************************************************)
(* Slow light and sample checkpoints                                       *)
(***************************************************************************)
\* C14: under the simulation model an input with slow_light_on and checkpoint_sample_save or
\* checkpoint_sample_load true is rejected at construction (with a BlacklightException when no
\* key is absent), and no Integrate call of a constructed integrator with slow light on
\* invokes LoadSampling or SaveSampling
C14_NoCheckpointWithSlowLight ==
  ri.phase # "none" =>
    /\ (/\ inp.model_type = "simulation" /\ SetTrue(inp, "slow_light_on")
        /\ (SetTrue(inp, "checkpoint_sample_save") \/ SetTrue(inp, "checkpoint_sample_load")))
         => /\ ri.phase = "failed"
            /\ inp.absent = {} => ri.err \in {ErrSaveLoad, ErrSlowCheckpoint}
    /\ (Built /\ ri.model_type = "simulation" /\ ri.slow_light_on)
         => /\ ~ri.checkpoint_sample_save /\ ~ri.checkpoint_sample_load
            /\ \A i \in 1..Len(run.hist) :
                 Calls(i) \cap {"LoadSampling", "SaveSampling"} = {}

C14_Witness ==
  /\ ri.phase = "failed" /\ ri.err = ErrSlowCheckpoint
  /\ inp.slow_light_on /\ inp.checkpoint_sample_save /\ ~inp.checkpoint_sample_load


(***************************************************************************)
(* Level transitions of Integrate                                          *)
(***************************************************************************)
\* the record of the call a step has just made
LastCall == run'.hist[Len(run'.hist)]

\* C15: every Integrate call either returns false and raises adaptive_level by exactly 1
\* (leaving adaptive_num_levels alone), or returns true, sets adaptive_num_levels to the level
\* it processed and resets adaptive_level to 0; with adaptive_max_level = 0 the refinement
\* check is not run, the call returns true and adaptive_level is 0 before and after it
C15_LevelTransitions ==
  [][run'.ncalls = run.ncalls + 1 =>
       /\ LastCall.level = ri.adaptive_level
       /\ \/ /\ ~LastCall.ret
             /\ ri'.adaptive_level = ri.adaptive_level + 1
             /\ ri'.adaptive_num_levels = ri.adaptive_num_levels
          \/ /\ LastCall.ret
             /\ ri'.adaptive_num_levels = ri.adaptive_level
             /\ ri'.adaptive_level = 0
       /\ ri.adaptive_max_level = 0 =>
            /\ ~LastCall.checked /\ LastCall.ret
            /\ ri.adaptive_level = 0 /\ ri'.adaptive_level = 0
       /\ ri'.adaptive_max_level = ri.adaptive_max_level]_vars

C15_Witness ==
  /\ run.ncalls > 1 /\ ri.adaptive_max_level > 1
  /\ ri.adaptive_num_levels = 1 /\ ri.adaptive_level = 0
  /\ ~run.hist[1].ret /\ run.hist[2].ret


(***************************************************************************)
(* Order of the calls of Integrate under the simulation model              *)
(***************************************************************************)
\* a occurs in q, and before every occurrence of b
Precedes(q, a, b) ==
  /\ \E i \in 1..Len(q) : q[i] = a
  /\ \A i, j \in 1..Len(q) : (q[i] = a /\ q[j] = b) => i < j

\* C16: for a simulation, ObtainGridData runs exactly once, in the first call; a level-0 call
\* computes or loads the sampling only when it is the first call or slow light is on, and with
\* slow light on every level-0 call runs CalculateSimulationSampling; every call at a level
\* above 0 runs CalculateSimulationSampling; SaveSampling runs only in the first call, once,
\* after CalculateSimulationSampling; SampleSimulation runs once in every call, after the
\* sampling calls and before CalculateSimulationCoefficients
C16_SamplingOrder ==
  (Built /\ ri.model_type = "simulation") =>
    \A i \in 1..Len(run.hist) :
      LET q == run.hist[i].calls
          sampling == {"CalculateSimulationSampling", "LoadSampling"} IN
      /\ Count(q, "ObtainGridData") = (IF i = 1 THEN 1 ELSE 0)
      /\ run.hist[i].level = 0
           => /\ (Calls(i) \cap sampling # {}) <=> (i = 1 \/ ri.slow_light_on)
              /\ ri.slow_light_on => "CalculateSimulationSampling" \in Calls(i)
      /\ run.hist[i].level > 0 => "CalculateSimulationSampling" \in Calls(i)
      /\ \A c \in sampling \cup {"SaveSampling"} : Count(q, c) <= 1
      /\ "SaveSampling" \in Calls(i)
           => (i = 1 /\ Precedes(q, "CalculateSimulationSampling", "SaveSampling"))
      /\ Count(q, "SampleSimulation") = 1
      /\ \A c \in sampling \cup {"SaveSampling", "ObtainGridData"} :
           c \in Calls(i) => Precedes(q, c, "SampleSimulation")
      /\ Count(q, "CalculateSimulationCoefficients") = 1
      /\ Precedes(q, "SampleSimulation", "CalculateSimulationCoefficients")

C16_Witness ==
  /\ ri.phase = "constructed" /\ ri.model_type = "simulation" /\ ~ri.slow_light_on
  /\ Len(run.hist) = 3
  /\ "SaveSampling" \in Calls(1)
  /\ run.hist[2].level = 1 /\ "CalculateSimulationSampling" \in Calls(2)
  /\ run.hist[3].level = 0 /\ "CalculateSimulationSampling" \notin Calls(3)


(***************************************************************************)
(* Layout of the image channels                                            *)
(***************************************************************************)
\* the channels in their fixed order: is it enabled, where it starts, how wide it is
ChannelLayout ==
  <<[on |-> ri.image_light, at |-> 0,
     w |-> IF ri.model_type = "simulation" /\ ri.image_polarization THEN 4 ELSE 1],
    [on |-> ri.image_time, at |-> ri.image_offset_time, w |-> 1],
    [on |-> ri.image_length, at |-> ri.image_offset_length, w |-> 1],
    [on |-> ri.image_lambda, at |-> ri.image_offset_lambda, w |-> 1],
    [on |-> ri.image_emission, at |-> ri.image_offset_emission, w |-> 1],
    [on |-> ri.image_tau, at |-> ri.image_offset_tau, w |-> 1],
    [on |-> ri.image_lambda_ave, at |-> ri.image_offset_lambda_ave, w |-> NumCellValues],
    [on |-> ri.image_emission_ave, at |-> ri.image_offset_emission_ave, w |-> NumCellValues],
    [on |-> ri.image_tau_int, at |-> ri.image_offset_tau_int, w |-> NumCellValues]>>

\* the sum of the widths of the enabled channels among the first k
RECURSIVE WidthBefore(_, _)
WidthBefore(l, k) ==
  IF k = 0 THEN 0
  ELSE WidthBefore(l, k - 1) + (IF l[k].on THEN l[k].w ELSE 0)

ChannelRange(c) == c.at .. (c.at + c.w - 1)

\* C17: after construction every enabled channel starts at the sum of the widths of the
\* enabled channels before it in the order light, time, length, lambda, emission, tau,
\* lambda_ave, emission_ave, tau_int, so the ranges of the enabled channels are pairwise
\* disjoint and together are exactly 0..image_num_quantities-1
C17_ChannelLayout ==
  ri.phase = "constructed" =>
    LET l == ChannelLayout
        enabled == {k \in 1..Len(l) : l[k].on} IN
    /\ \A k \in enabled : l[k].at = WidthBefore(l, k - 1)
    /\ ri.image_num_quantities = WidthBefore(l, Len(l))
    /\ \A j, k \in enabled : j # k => ChannelRange(l[j]) \cap ChannelRange(l[k]) = {}
    /\ UNION {ChannelRange(l[k]) : k \in enabled} = 0..(ri.image_num_quantities - 1)

C17_Witness ==
  /\ ri.phase = "constructed" /\ ri.model_type = "simulation"
  /\ ri.image_light /\ ri.image_polarization /\ ~ri.image_time /\ ri.image_tau
  /\ ~ri.image_lambda_ave /\ ri.image_emission_ave /\ ri.image_tau_int
  /\ ri.image_offset_tau_int = ri.image_offset_tau + 1 + NumCellValues
  /\ ri.image_offset_tau >= 4
  /\ ri.image_num_quantities = ri.image_offset_tau_int + NumCellValues


(***************************************************************************)
(* Allocations of a construction that fails                                *)
(***************************************************************************)
ConfigurationErrors ==
  {ErrFeatures, ErrNoImage, ErrAdaptiveLight, ErrBlockPositive, ErrBlockDivide}

\* C19: when the constructor fails with a configuration error, every array it had allocated
\* has been released
C19_FailedConstructionReleasesAll ==
  (ri.phase = "failed" /\ ri.err \in ConfigurationErrors)
    => SeqRange(ri.allocs) \subseteq SeqRange(ri.frees)

====
